---- MODULE Spec2Model ----
(***************************************************************************)
(* Dooray MCP server: the authenticated HTTP client (DoorayClient) with    *)
(* its 307-redirect file transfer, the tool registry, the CallTool         *)
(* dispatcher and a representative set of tool handlers.                   *)
(*                                                                         *)
(* JavaScript values are modelled as follows.  `undefined` in a string     *)
(* position is the string Undefined; an undefined statusCode is 0 (both    *)
(* are falsy where the code tests them).  A thrown value is an error       *)
(* record whose `class` is the constructor name.  A value returned by a    *)
(* handler is a record that is either a ToolResult object or a bare        *)
(* string.                                                                 *)
(***************************************************************************)
EXTENDS Integers, Sequences, FiniteSets, TLC

VARIABLES
    proc,            \* "starting" | "serving" | "exited"   (the node process)
    exitCode,        \* the code the process exited with, -1 while it runs
    fs,              \* the local filesystem: path -> content, Absent when missing
    envToken,        \* process.env.DOORAY_API_TOKEN ("" when unset)
    build,           \* which upload-attachment module the build links
    clientInstance,  \* api/client.ts module variable: "null" or the token it holds
    calls,           \* the CallTool requests, by slot
    cl               \* a DoorayClient operation driven directly (SpecClient)

vars == <<proc, exitCode, fs, envToken, build, clientInstance, calls, cl>>

(***************************************************************************)
(* Bounds                                                                  *)
(***************************************************************************)
MaxCalls == 2        \* CallTool request slots
MaxBadFields == 2    \* how many fields of one argument object may be invalid
MaxItems == 2        \* items in one page of a paginated response

CallIds == 1..MaxCalls

(***************************************************************************)
(* Values                                                                  *)
(***************************************************************************)
Undefined == "undefined"

Token == "tok"
DEFAULT_BASE_URL == "https://api.dooray.com"
StorageUrl == "https://storage/x"

\* Response bodies.  shape "envelope" is {header:{isSuccessful,resultMessage},
\* result}; "plain" is a JSON object without header (for instance a gateway's
\* {message}); "none" is an empty or non-JSON body.
Envelope(ok, msg, res) ==
    [shape |-> "envelope", isSuccessful |-> ok, resultMessage |-> msg,
     message |-> "", result |-> res, totalCount |-> IF ok THEN 3 ELSE 0,
     items |-> <<>>, nested |-> FALSE]
PlainBody(msg) ==
    [shape |-> "plain", isSuccessful |-> FALSE, resultMessage |-> "",
     message |-> msg, result |-> Undefined, totalCount |-> 0,
     items |-> <<>>, nested |-> FALSE]
NoBody ==
    [shape |-> "none", isSuccessful |-> FALSE, resultMessage |-> "",
     message |-> "", result |-> Undefined, totalCount |-> 0,
     items |-> <<>>, nested |-> FALSE]
\* `undefined` where a body is expected (an error built without responseData)
UndefinedData ==
    [shape |-> "undefined", isSuccessful |-> FALSE, resultMessage |-> "",
     message |-> "", result |-> Undefined, totalCount |-> 0,
     items |-> <<>>, nested |-> FALSE]

\* A paginated envelope {header, result: [...], totalCount}: result is the
\* list items, or [items] when nested (the member-group endpoint's shape).
PageEnvelope(tc, items, nested) ==
    [Envelope(TRUE, "", "list") EXCEPT
        !.totalCount = tc, !.items = items, !.nested = nested]

Payloads == {"f1", Undefined}

Bodies ==
    {Envelope(TRUE, "", p) : p \in Payloads}
    \cup {Envelope(FALSE, "biz failure", Undefined), Envelope(FALSE, "", Undefined),
          PlainBody("Not Found"), NoBody}

\* An HTTP exchange as the remote answers it.  fault # "" means that no
\* response arrived (timeout, connection failure) and is the library's message.
\* bytes is the raw payload a download reads; the three header fields are ""
\* when the header is absent.
Http(st, loc, b) ==
    [status |-> st, location |-> loc, body |-> b, bytes |-> "", contentType |-> "",
     contentDisposition |-> "", contentLength |-> "", fault |-> ""]
HttpFile(st, loc, bytes, ct, cd, len) ==
    [status |-> st, location |-> loc, body |-> NoBody, bytes |-> bytes,
     contentType |-> ct, contentDisposition |-> cd, contentLength |-> len,
     fault |-> ""]
Fault(msg) ==
    [status |-> 0, location |-> "", body |-> NoBody, bytes |-> "", contentType |-> "",
     contentDisposition |-> "", contentLength |-> "", fault |-> msg]

Is2xx(st) == st >= 200 /\ st < 300

(***************************************************************************)
(* utils/errors.ts                                                         *)
(***************************************************************************)
\* A thrown value.  statusCode/responseData are DoorayAPIError's public
\* fields; httpStatus is error.response.status of the HTTP library's own
\* error (0 when there is no response).
Err(c, msg, sc, data, hs) ==
    [class |-> c, message |-> msg, statusCode |-> sc, responseData |-> data,
     httpStatus |-> hs, errors |-> <<>>]
NoError == Err("none", "", 0, UndefinedData, 0)

DoorayAPIError(msg, sc, data) == Err("DoorayAPIError", msg, sc, data, 0)

\* super(message, 401): no responseData
AuthenticationError(msg) == Err("AuthenticationError", msg, 401, UndefinedData, 0)

PlainError(msg) == Err("Error", msg, 0, UndefinedData, 0)
SyntaxError(msg) == Err("SyntaxError", msg, 0, UndefinedData, 0)
\* zod's error: errors is the list of issues {path, message}
ZodError(issues) ==
    [Err("ZodError", "invalid input", 0, UndefinedData, 0) EXCEPT !.errors = issues]
TypeError(msg) == Err("TypeError", msg, 0, UndefinedData, 0)

\* e instanceof DoorayAPIError (AuthenticationError extends DoorayAPIError)
IsDoorayAPIError(e) == e.class \in {"DoorayAPIError", "AuthenticationError"}

formatError(e) ==
    IF IsDoorayAPIError(e)
    THEN "Dooray API Error: " \o e.message
         \o (IF e.statusCode # 0
             THEN " (Status: " \o ToString(e.statusCode) \o ")" ELSE "")
    ELSE IF e.class = "ValidationError"
    THEN "Validation Error: " \o e.message
    ELSE e.message

(***************************************************************************)
(* api/client.ts: DoorayClient                                             *)
(***************************************************************************)
\* What the HTTP library rejects with when validateStatus refuses the status
\* or no response arrives.
AxiosError(resp) ==
    Err("AxiosError",
        IF resp.fault # "" THEN resp.fault
        ELSE "Request failed with status code " \o ToString(resp.status),
        0, UndefinedData, resp.status)

\* validateStatus of axios.create() without the option
ValidateStatusDefault(st) == Is2xx(st)
\* validateStatus of the step-1 client of uploadFile and downloadFile
ValidateStatusTransfer(st) == st = 307 \/ Is2xx(st)

\* Values an operation returns: the unwrapped payload, a page, a raw response
\* body, or a downloaded file.
NoFile == [data |-> "", contentType |-> "", contentDisposition |-> Undefined,
           contentLength |-> 0]
Val(k, p, tc, b, f) ==
    [kind |-> k, payload |-> p, totalCount |-> tc, body |-> b, file |-> f,
     items |-> <<>>, nested |-> FALSE]
NoValue == Val("none", Undefined, 0, UndefinedData, NoFile)
PayloadValue(p) == Val("payload", p, 0, UndefinedData, NoFile)
\* {totalCount, data}: payload is Undefined when data is undefined, else
\* data is items (or [items] when nested)
PageValue(tc, p, items, nested) ==
    [Val("page", p, tc, UndefinedData, NoFile) EXCEPT
        !.items = items, !.nested = nested]
BodyValue(b) == Val("body", Undefined, 0, b, NoFile)
FileValue(f) == Val("file", Undefined, 0, UndefinedData, f)

Return(v) == [tag |-> "return", value |-> v, error |-> NoError, location |-> ""]
Throw(e) == [tag |-> "throw", value |-> NoValue, error |-> e, location |-> ""]
Follow(loc) == [tag |-> "follow", value |-> NoValue, error |-> NoError, location |-> loc]
Pending == [tag |-> "pending", value |-> NoValue, error |-> NoError, location |-> ""]

\* data?.header?.resultMessage || data?.message || 'API request failed'
InterceptorMessage(data) ==
    IF data.resultMessage # "" THEN data.resultMessage
    ELSE IF data.message # "" THEN data.message
    ELSE "API request failed"

\* A variant of the rejection handler without the 401 case; C4 rejects it.
InterceptorWithoutAuthCase(resp) ==
    IF resp.fault = ""
    THEN DoorayAPIError(InterceptorMessage(resp.body), resp.status, resp.body)
    ELSE DoorayAPIError("Network error: " \o resp.fault, 0, UndefinedData)

\* The response interceptor's rejection handler.
InterceptorOnRejected(resp) ==
    IF resp.fault = ""
    THEN IF resp.status = 401
         THEN AuthenticationError("Invalid or expired API token")
         ELSE DoorayAPIError(InterceptorMessage(resp.body), resp.status, resp.body)
    ELSE DoorayAPIError("Network error: " \o resp.fault, 0, UndefinedData)

ReadOfUndefined(prop) ==
    TypeError("Cannot read properties of undefined (reading '" \o prop \o "')")

\* A variant that uses the envelope's resultMessage even when it is empty;
\* C11 rejects it.
extractResultWithoutFallback(resp) ==
    IF resp.body.shape # "envelope"
    THEN Throw(ReadOfUndefined("isSuccessful"))
    ELSE IF ~resp.body.isSuccessful
    THEN Throw(DoorayAPIError(resp.body.resultMessage, resp.status, resp.body))
    ELSE Return(PayloadValue(resp.body.result))

\* A variant that returns the payload without reading isSuccessful; C10
\* rejects it.
extractResultUnchecked(resp) ==
    IF resp.body.shape # "envelope"
    THEN Throw(ReadOfUndefined("isSuccessful"))
    ELSE Return(PayloadValue(resp.body.result))

extractResult(resp) ==
    IF resp.body.shape # "envelope"
    THEN Throw(ReadOfUndefined("isSuccessful"))
    ELSE IF ~resp.body.isSuccessful
    THEN Throw(DoorayAPIError(
             IF resp.body.resultMessage # "" THEN resp.body.resultMessage
             ELSE "API request failed",
             resp.status, resp.body))
    ELSE Return(PayloadValue(resp.body.result))

extractPaginatedResult(resp) ==
    IF resp.body.shape # "envelope"
    THEN Throw(ReadOfUndefined("isSuccessful"))
    ELSE IF ~resp.body.isSuccessful
    THEN Throw(DoorayAPIError(
             IF resp.body.resultMessage # "" THEN resp.body.resultMessage
             ELSE "API request failed",
             resp.status, resp.body))
    ELSE Return(PageValue(resp.body.totalCount, resp.body.result,
                          resp.body.items, resp.body.nested))

Verbs == {"get", "post", "put", "patch", "delete"}
MethodOf(op) ==
    CASE op = "getPaginated" -> "GET"
      [] op = "get" -> "GET"
      [] op = "post" -> "POST"
      [] op = "put" -> "PUT"
      [] op = "patch" -> "PATCH"
      [] op = "delete" -> "DELETE"
      [] op = "uploadFile" -> "POST"
      [] op = "downloadFile" -> "GET"

\* A request on the wire.  via names the HTTP client instance that sent it.
Request(via, method, url, auth, payload) ==
    [via |-> via, method |-> method, url |-> url, auth |-> auth, payload |-> payload]

\* A variant of the request interceptor that leaves the headers alone; C13
\* rejects it.
RequestInterceptorIdle(token) == ""

\* The request interceptor sets the header on every request of this.client.
RequestInterceptor(token) == "dooray-api " \o token

\* url.startsWith('http') ? url : `${baseUrl}${url}`
AbsoluteUrls == {StorageUrl}
FullUrl(url) == IF url \in AbsoluteUrls THEN url ELSE DEFAULT_BASE_URL \o url

\* get / post / put / patch / delete / getPaginated: the request, and the
\* outcome once the remote has answered.
VerbRequest(token, op, url, data) ==
    Request("client", MethodOf(op), DEFAULT_BASE_URL \o url,
            RequestInterceptor(token), data)

VerbOutcome(op, resp) ==
    IF resp.fault = "" /\ ValidateStatusDefault(resp.status)
    THEN IF op = "getPaginated" THEN extractPaginatedResult(resp)
         ELSE extractResult(resp)
    ELSE Throw(InterceptorOnRejected(resp))

\* parseInt(headers['content-length'] || '0', 10) on the header values the
\* model uses
ParseInt(s) == IF s = "5" THEN 5 ELSE 0

DownloadResult(resp) ==
    FileValue([data |-> resp.bytes,
               contentType |-> IF resp.contentType # "" THEN resp.contentType
                               ELSE "application/octet-stream",
               contentDisposition |-> IF resp.contentDisposition # ""
                                      THEN resp.contentDisposition ELSE Undefined,
               contentLength |-> ParseInt(IF resp.contentLength # ""
                                          THEN resp.contentLength ELSE "0")])

\* uploadFile / downloadFile, step 1
TransferRequest1(token, op, url, data) ==
    Request("initialClient", MethodOf(op), FullUrl(url), "dooray-api " \o token, data)

\* A variant of step 1 that follows a 307 whatever its Location header is;
\* C28 rejects it.
TransferStep1WithoutLocationCheck(op, resp) ==
    IF resp.fault # "" \/ ~ValidateStatusTransfer(resp.status)
    THEN Throw(AxiosError(resp))
    ELSE IF resp.status # 307
    THEN Return(IF op = "uploadFile" THEN BodyValue(resp.body) ELSE DownloadResult(resp))
    ELSE Follow(resp.location)

TransferStep1(op, resp) ==
    IF resp.fault # "" \/ ~ValidateStatusTransfer(resp.status)
    THEN Throw(AxiosError(resp))
    ELSE IF resp.status # 307
    THEN Return(IF op = "uploadFile" THEN BodyValue(resp.body) ELSE DownloadResult(resp))
    ELSE IF resp.location = ""
    THEN Throw(DoorayAPIError("307 redirect received but no Location header found",
                              0, UndefinedData))
    ELSE Follow(resp.location)

\* A variant of the follow-up request that drops the Authorization header;
\* C7 rejects it.
TransferRequest2Unauthenticated(token, op, locationUrl, data) ==
    Request("secondClient", MethodOf(op), locationUrl, "", data)

\* uploadFile / downloadFile, step 2
TransferRequest2(token, op, locationUrl, data) ==
    Request("secondClient", MethodOf(op), locationUrl, "dooray-api " \o token, data)

TransferStep2(op, resp) ==
    IF resp.fault # "" \/ ~ValidateStatusDefault(resp.status)
    THEN Throw(AxiosError(resp))
    ELSE Return(IF op = "uploadFile" THEN BodyValue(resp.body) ELSE DownloadResult(resp))

(***************************************************************************)
(* The remote service: the answers it may give                             *)
(***************************************************************************)
ConnectFault == Fault("connect ECONNREFUSED")

ErrorResponses ==
    {Http(401, "", Envelope(FALSE, "unauthorized", Undefined)),
     Http(404, "", PlainBody("Not Found")),
     Http(500, "", Envelope(FALSE, "internal", Undefined)),
     Http(500, "", NoBody),
     ConnectFault}

\* answers to get / post / put / patch / delete / getPaginated
ApiResponses == {Http(200, "", b) : b \in Bodies} \cup ErrorResponses

\* The item lists of a page: the first n of m1, m2, ...
ItemLists == {[i \in 1..n |-> "m" \o ToString(i)] : n \in 0..MaxItems}

\* answers to getPaginated: pages whose totalCount is independent of the
\* number of items, an envelope without result, and errors
PageResponses ==
    {Http(200, "", PageEnvelope(tc, items, FALSE)) : tc \in {0, 7}, items \in ItemLists}
    \cup {Http(200, "", Envelope(TRUE, "", Undefined))}
    \cup ErrorResponses

\* the member-group endpoint also answers with a double-nested list
GroupResponses ==
    PageResponses
    \cup {Http(200, "", PageEnvelope(1, items, TRUE)) : items \in ItemLists}

\* answers to getMemberDetails
MemberResponses ==
    {Http(200, "", Envelope(TRUE, "", "f1")),
     Http(500, "", Envelope(FALSE, "internal", Undefined)),
     ConnectFault}

\* answers to the first request of an upload
UploadResponses1 ==
    {Http(200, "", Envelope(TRUE, "", "f1")),
     Http(200, "", Envelope(FALSE, "biz failure", Undefined)),
     Http(201, StorageUrl, Envelope(TRUE, "", "f1")),
     Http(204, "", NoBody),
     Http(307, StorageUrl, NoBody),
     Http(307, "", NoBody),
     Http(302, StorageUrl, NoBody)} \cup ErrorResponses

\* answers to the follow-up request of an upload
UploadResponses2 ==
    {Http(200, "", Envelope(TRUE, "", "f1")),
     Http(200, "", Envelope(FALSE, "biz failure", Undefined)),
     Http(200, "", NoBody),
     Http(307, "", NoBody)} \cup ErrorResponses

\* answers to the first request of a download
DownloadResponses1 ==
    {HttpFile(200, "", "bytesA", "image/png", "attachment; filename=a.png", "5"),
     HttpFile(200, "", "bytesA", "", "", ""),
     HttpFile(200, "", "bytesA", "text/plain", "attachment; filename=\"../a.txt\"", "5"),
     HttpFile(307, StorageUrl, "redirect page", "text/html", "", "5"),
     HttpFile(307, "", "", "", "", "")} \cup ErrorResponses

\* answers to the follow-up request of a download
DownloadResponses2 ==
    {HttpFile(200, "", "bytesB", "application/pdf", "attachment; filename=b.pdf", ""),
     HttpFile(200, "", "bytesB", "", "", "5")} \cup ErrorResponses

Responses1(op) ==
    CASE op = "uploadFile" -> UploadResponses1
      [] op = "downloadFile" -> DownloadResponses1
      [] op = "getPaginated" -> GroupResponses
      [] OTHER -> ApiResponses
Responses2(op) ==
    IF op = "uploadFile" THEN UploadResponses2 ELSE DownloadResponses2

(***************************************************************************)
(* A DoorayClient operation called directly                                *)
(***************************************************************************)
ClientOps == Verbs \cup {"getPaginated", "uploadFile", "downloadFile"}
ClientUrls == {"/project/v1/files"}
ClientData == {"payloadA"}

ClientIdle ==
    [pc |-> "idle", op |-> "none", url |-> "", data |-> "", reqs |-> <<>>,
     resps |-> <<>>, outcome |-> Pending]

\* The caller invokes the operation; it runs to its first await.
ClientCall(op, url, data) ==
    /\ proc = "serving"
    /\ clientInstance # "null"
    /\ cl.pc = "idle"
    /\ cl' = [pc |-> "await1", op |-> op, url |-> url, data |-> data,
              reqs |-> <<IF op \in {"uploadFile", "downloadFile"}
                         THEN TransferRequest1(clientInstance, op, url, data)
                         ELSE VerbRequest(clientInstance, op, url, data)>>,
              resps |-> <<>>, outcome |-> Pending]
    /\ UNCHANGED <<proc, exitCode, fs, envToken, build, clientInstance, calls>>

\* The first request settles.
ClientRespond1(resp) ==
    /\ cl.pc = "await1"
    /\ resp \in Responses1(cl.op)
    /\ LET out == IF cl.op \in {"uploadFile", "downloadFile"}
                  THEN TransferStep1(cl.op, resp)
                  ELSE VerbOutcome(cl.op, resp)
       IN cl' = IF out.tag = "follow"
                THEN [cl EXCEPT !.pc = "await2",
                                !.resps = Append(@, resp),
                                !.reqs = Append(@, TransferRequest2(
                                    clientInstance, cl.op, out.location, cl.data))]
                ELSE [cl EXCEPT !.pc = "done",
                                !.resps = Append(@, resp),
                                !.outcome = out]
    /\ UNCHANGED <<proc, exitCode, fs, envToken, build, clientInstance, calls>>

\* The follow-up request of a transfer settles.
ClientRespond2(resp) ==
    /\ cl.pc = "await2"
    /\ resp \in Responses2(cl.op)
    /\ cl' = [cl EXCEPT !.pc = "done",
                        !.resps = Append(@, resp),
                        !.outcome = TransferStep2(cl.op, resp)]
    /\ UNCHANGED <<proc, exitCode, fs, envToken, build, clientInstance, calls>>

\* The caller has consumed the outcome.
ClientReset ==
    /\ cl.pc = "done"
    /\ cl' = ClientIdle
    /\ UNCHANGED <<proc, exitCode, fs, envToken, build, clientInstance, calls>>

(***************************************************************************)
(* index.ts: the tool registry                                             *)
(***************************************************************************)
\* Two entry points exist in the repository: one registers the project tools
\* only, the other adds the drive tools.  The model keeps a representative
\* tool of each handler pattern.
Builds == {"basic", "full"}
PageTools ==
    {"get-project-list", "get-project-member-group-list", "get-project-member-list"}
ProjectTools ==
    {"get-my-member-info", "create-task", "update-task-comment", "upload-attachment"}
    \cup PageTools
DriveTools == {"upload-drive-file", "update-drive-file", "download-drive-file"}
TaskTools == {"update-task"}

\* A registry that lacks the entries of the drive tools; C27 rejects it.
toolRegistryWithoutDrive(b) == ProjectTools \cup TaskTools

\* the own keys of the toolRegistry object literal
toolRegistry(b) ==
    IF b = "full" THEN ProjectTools \cup TaskTools \cup DriveTools
    ELSE ProjectTools \cup TaskTools

\* property names every object literal inherits from Object.prototype
ObjectPrototypeKeys == {"constructor", "toString", "__proto__"}

\* toolRegistry[name]: an own entry, an inherited member (truthy, without
\* schema or handler), or undefined
Lookup(b, name) ==
    IF name \in toolRegistry(b) THEN "entry"
    ELSE IF name \in ObjectPrototypeKeys THEN "inherited"
    ELSE "undefined"

\* The required string fields of each tool's zod schema, in declaration order.
Schema(b, name) ==
    CASE name = "get-my-member-info" -> <<>>
      [] name = "create-task" -> <<"projectId", "subject">>
      [] name = "update-task" -> <<"projectId", "taskId">>
      [] name = "update-task-comment" -> <<"projectId", "taskId", "commentId">>
      [] name = "upload-attachment" ->
            IF b = "full" THEN <<"projectId", "taskId", "filePath">>
            ELSE <<"projectId", "taskId", "fileName", "fileContent">>
      [] name = "upload-drive-file" -> <<"driveId", "parentId", "filePath">>
      [] name = "update-drive-file" -> <<"driveId", "fileId", "filePath">>
      [] name = "download-drive-file" -> <<"driveId", "fileId">>
      [] name = "get-project-list" -> <<>>
      [] name \in {"get-project-member-group-list", "get-project-member-list"} ->
            <<"projectId">>

(***************************************************************************)
(* Arguments and zod validation                                            *)
(***************************************************************************)
Range(seq) == {seq[i] : i \in 1..Len(seq)}

\* How the caller supplied a field: a string, not at all, or a number.
FieldKinds == {"ok", "missing", "number"}

\* The argument objects tried for a tool: every field a string, or up to
\* MaxBadFields of them missing or of the wrong type.
ArgCases(fields) ==
    {k \in [Range(fields) -> FieldKinds] :
        Cardinality({f \in Range(fields) : k[f] # "ok"}) <= MaxBadFields}

ZodMessage(kind) ==
    IF kind = "missing" THEN "Required" ELSE "Expected string, received number"

\* schema.parse(args): the issues, in schema order (empty when args are valid)
RECURSIVE ZodIssues(_, _)
ZodIssues(fields, kinds) ==
    IF fields = <<>> THEN <<>>
    ELSE (IF kinds[Head(fields)] = "ok" THEN <<>>
          ELSE <<[path |-> <<Head(fields)>>, message |-> ZodMessage(kinds[Head(fields)])]>>)
         \o ZodIssues(Tail(fields), kinds)

\* Array.prototype.join
RECURSIVE Join(_, _)
Join(strs, sep) ==
    IF strs = <<>> THEN ""
    ELSE IF Len(strs) = 1 THEN strs[1]
    ELSE strs[1] \o sep \o Join(Tail(strs), sep)

(***************************************************************************)
(* Values a CallTool request resolves to                                   *)
(***************************************************************************)
\* { content: [{ type: 'text', text }], isError? }.  isError is "true" or
\* "absent"; a text of Undefined is the JavaScript value undefined.
ToolResult(text, isErr) ==
    [shape |-> "object", content |-> <<[type |-> "text", text |-> text]>>,
     isError |-> isErr, value |-> ""]
\* a bare string in place of the object
BareString(str) == [shape |-> "string", content |-> <<>>, isError |-> "absent", value |-> str]
NoResult == [shape |-> "none", content |-> <<>>, isError |-> "absent", value |-> ""]

\* JSON.stringify(v, null, 2) of a payload; undefined for undefined
JSONstringify(p) == IF p = Undefined THEN Undefined ELSE "{id:" \o p \o "}"

UnknownToolResult(name) == ToolResult("Error: Unknown tool '" \o name \o "'", "true")

\* The catch block of the CallTool handler.
DispatcherCatch(e) ==
    IF e.class = "ZodError"
    THEN ToolResult(
             "Validation Error: "
             \o Join([i \in 1..Len(e.errors) |->
                        Join(e.errors[i].path, ".") \o ": " \o e.errors[i].message],
                     ", "),
             "true")
    ELSE ToolResult("Error: " \o e.message, "true")

(***************************************************************************)
(* tools/: the handlers                                                    *)
(***************************************************************************)
Absent == "ENOENT"
Paths == {"/tmp/a.txt", "/tmp/missing.txt"}

\* The local file system beyond the upload sources: the directory /tmp/out,
\* which does not exist at first, with the files a download may save in it.
\* /tmp exists and is writable; /readonly exists and is not.
Dir == "<dir>"
FsPaths ==
    Paths \cup {"/tmp/out", "/tmp/out/a.png", "/tmp/out/b.pdf", "/tmp/out/drive-file-1"}
SavePaths == Paths \cup {"/tmp/out/", "/readonly/x.bin"}

\* The segments of the path strings of the model, as splitting at "/" gives
\* them; a trailing "/" leaves an empty last segment.
SplitPath(p) ==
    CASE p = "/tmp/a.txt" -> <<"tmp", "a.txt">>
      [] p = "/tmp/missing.txt" -> <<"tmp", "missing.txt">>
      [] p = "/tmp/out/" -> <<"tmp", "out", "">>
      [] p = "/readonly/x.bin" -> <<"readonly", "x.bin">>
      [] p = "a.png" -> <<"a.png">>
      [] p = "b.pdf" -> <<"b.pdf">>
      [] p = "drive-file-1" -> <<"drive-file-1">>
      [] p = "../a.txt" -> <<"..", "a.txt">>

\* path.normalize on the segments of an absolute path: "" and "." are
\* dropped and ".." removes the segment before it
RECURSIVE NormalizeSegments(_, _)
NormalizeSegments(done, rest) ==
    IF rest = <<>> THEN done
    ELSE IF Head(rest) \in {"", "."} THEN NormalizeSegments(done, Tail(rest))
    ELSE IF Head(rest) = ".."
    THEN NormalizeSegments(IF done = <<>> THEN done ELSE SubSeq(done, 1, Len(done) - 1),
                           Tail(rest))
    ELSE NormalizeSegments(Append(done, Head(rest)), Tail(rest))

PathOf(segs) == "/" \o Join(segs, "/")

\* path.join(dir, name) and path.dirname(p)
pathJoin(dir, name) == PathOf(NormalizeSegments(<<>>, SplitPath(dir) \o SplitPath(name)))
pathDirname(p) == PathOf(SubSeq(SplitPath(p), 1, Len(SplitPath(p)) - 1))

\* extractFilename: the filename parameter of a Content-Disposition header,
\* undefined without the header or without the parameter
extractFilename(contentDisposition) ==
    CASE contentDisposition = "attachment; filename=a.png" -> "a.png"
      [] contentDisposition = "attachment; filename=b.pdf" -> "b.pdf"
      [] contentDisposition = "attachment; filename=\"../a.txt\"" -> "../a.txt"
      [] OTHER -> Undefined

\* update-task-comment (like get-task-comment-list) returns formatError(error)
\* itself from its catch block; every other handler wraps it in a result.
BareCatchTools == {"update-task-comment"}
HandlerCatch(name, e) ==
    IF name \in BareCatchTools THEN BareString(formatError(e))
    ELSE ToolResult("Error: " \o formatError(e), "true")

CurlTool(b, name) ==
    \/ name \in {"upload-drive-file", "update-drive-file"}
    \/ name = "upload-attachment" /\ b = "full"
TransferTool(b, name) ==
    \/ name = "download-drive-file"
    \/ name = "upload-attachment" /\ b = "basic"
TransferOp(name) == IF name = "download-drive-file" THEN "downloadFile" ELSE "uploadFile"

VerbOf(name) ==
    CASE name = "get-my-member-info" -> "get"
      [] name = "create-task" -> "post"
      [] name = "update-task" -> "put"
      [] name = "update-task-comment" -> "put"
      [] name \in PageTools -> "getPaginated"

ApiPath(name) ==
    CASE name = "get-my-member-info" -> "/common/v1/members/me"
      [] name = "create-task" -> "/project/v1/projects/1/posts"
      [] name = "update-task" -> "/project/v1/projects/1/posts/1"
      [] name = "update-task-comment" -> "/project/v1/projects/1/posts/1/logs/1"
      [] name = "upload-attachment" -> "/project/v1/projects/1/posts/1/files"
      [] name = "upload-drive-file" -> "/drive/v1/drives/1/files?parentId=1"
      [] name = "update-drive-file" -> "/drive/v1/drives/1/files/1?media=raw"
      [] name = "download-drive-file" -> "/drive/v1/drives/1/files/1"
      [] name = "get-project-list" -> "/project/v1/projects"
      [] name = "get-project-member-group-list" -> "/project/v1/projects/1/member-groups"
      [] name = "get-project-member-list" -> "/project/v1/projects/1/members"

ApiPayload(name) ==
    CASE name = "get-my-member-info" -> ""
      [] name = "create-task" -> "{subject}"
      [] name = "update-task-comment" -> "{}"
      [] name = "upload-attachment" -> "formData"
      [] name = "download-drive-file" -> "media=raw"
      [] name \in PageTools -> "page=0&size=20"

CurlMethod(name) == IF name = "update-drive-file" THEN "PUT" ELSE "POST"
CurlFallback(name) == IF name = "update-drive-file" THEN "Update failed" ELSE "Upload failed"

CurlRequest(name, url, token, path) ==
    Request("curl", CurlMethod(name), url, "dooray-api " \o token, "file=@" \o path)

\* -w '\n%{http_code}\n%{redirect_url}' -o /dev/null, then
\* stdout.trim().split('\n'); curl prints a redirect_url only for a 3xx
\* answer that has a Location, so any other answer leaves a single line.
Step1Lines(resp) ==
    IF resp.status \in 300..399 /\ resp.location # ""
    THEN <<ToString(resp.status), resp.location>>
    ELSE <<ToString(resp.status)>>
\* lines[lines.length - 2] and lines[lines.length - 1]
HttpCodeOf(lines) == IF Len(lines) >= 2 THEN lines[Len(lines) - 1] ELSE Undefined
RedirectUrlOf(lines) == lines[Len(lines)]

\* The text of a successful result.
\* transformMembers: undefined for a missing or an empty list
transformMembers(members) ==
    IF members \in {"absent", "empty"} THEN Undefined ELSE "members"

\* The params object updateTaskHandler builds from its arguments: the
\* optional fields as they came, and a users object in every case.
updateTaskParams(kinds) ==
    [subject |-> IF kinds["subject"] = "ok" THEN "s" ELSE Undefined,
     users |-> [defined |-> TRUE,
                to |-> transformMembers(kinds["assignees"]),
                cc |-> transformMembers(kinds["cc"])],
     workflowId |-> IF kinds["workflowId"] = "ok" THEN "w" ELSE Undefined]

\* the keys of a JSON object as they are sent
JSONkeys(keys) == "{" \o Join(keys, ",") \o "}"

\* updateTask: the body of its PUT request, in which each key is set when the
\* parameter is not undefined, and workflowId is not copied; a property of
\* users that is undefined is left out when the body is serialised.
updateTask(params) ==
    JSONkeys((IF params.subject # Undefined THEN <<"subject">> ELSE <<>>)
             \o (IF params.users.defined
                 THEN <<"users:" \o JSONkeys(
                            (IF params.users.to # Undefined THEN <<"to">> ELSE <<>>)
                            \o (IF params.users.cc # Undefined THEN <<"cc">> ELSE <<>>))>>
                 ELSE <<>>))

VerbSuccessText(name, v) ==
    IF name = "update-task-comment" THEN "Successfully updated comment 1"
    ELSE JSONstringify(v.payload)

\* fileId: result.result?.id || result.id, of the raw body uploadFile returned
InProcessFileId(b) ==
    IF b.shape = "envelope" THEN b.result ELSE Undefined
UploadSuccessText(fileId) ==
    IF fileId = Undefined THEN "{success:true}"
    ELSE "{success:true,fileId:" \o fileId \o "}"
DownloadSuccessText(f) ==
    "{success:true,contentType:" \o f.contentType \o ",contentLength:"
    \o ToString(f.contentLength) \o ",base64Data:base64(" \o f.data \o ")}"

\* JSON.stringify of {totalCount, data}
PageText(tc, data) ==
    "{totalCount:" \o ToString(tc) \o ",data:[" \o Join(data, ",") \o "]}"

\* filterProjectForList / filterMemberGroupForList: {id, name: code}
FilterForList(item) == "{id:" \o item \o "}"

\* A variant that counts the items of the page instead of passing the
\* response's totalCount on; C12 rejects it.
filterPaginatedResponseCounting(response) ==
    [totalCount |-> Len(response.items),
     data |-> IF response.payload = Undefined THEN <<>>
              ELSE [i \in 1..Len(response.items) |-> FilterForList(response.items[i])]]

\* filterPaginatedResponse(response, filterFn)
filterPaginatedResponse(response) ==
    [totalCount |-> response.totalCount,
     data |-> IF response.payload = Undefined THEN <<>>
              ELSE [i \in 1..Len(response.items) |-> FilterForList(response.items[i])]]

\* getProjectMemberGroups: a double-nested result.data is replaced by its
\* first element
getProjectMemberGroups(result) ==
    IF result.payload # Undefined /\ result.nested
    THEN [result EXCEPT !.nested = FALSE]
    ELSE result

\* one entry of enrichedMembers: the details, or the partial info of the
\* inner catch block
MemberEntry(id, name) == "{id:" \o id \o ",name:" \o name \o "}"
MemberOutcome(pm, resp) ==
    LET out == VerbOutcome("get", resp)
    IN IF out.tag = "throw" \/ out.value.payload = Undefined
       THEN MemberEntry(pm, "Unknown")
       ELSE MemberEntry(out.value.payload, "name")

MemberDetailsRequest(token, pm) ==
    VerbRequest(token, "get", "/common/v1/members/" \o pm, "")

\* the text of a download saved to targetPath
SavedText(f, targetPath) ==
    "{success:true,contentType:" \o f.contentType \o ",contentLength:"
    \o ToString(f.contentLength) \o ",savedTo:" \o targetPath \o "}"

TransferSuccessText(name, v) ==
    IF TransferOp(name) = "uploadFile" THEN UploadSuccessText(InProcessFileId(v.body))
    ELSE DownloadSuccessText(v.file)

\* The second and third curl invocation print the body, which is parsed and
\* checked: JSON.parse, header?.isSuccessful, result.id.
CurlFinish(name, resp) ==
    IF resp.fault # "" THEN Throw(PlainError("Command failed: curl"))
    ELSE IF resp.body.shape = "none"
    THEN Throw(SyntaxError("Unexpected end of JSON input"))
    ELSE IF ~(resp.body.shape = "envelope" /\ resp.body.isSuccessful)
    THEN Throw(PlainError(IF resp.body.resultMessage # "" THEN resp.body.resultMessage
                          ELSE CurlFallback(name)))
    ELSE IF resp.body.result = Undefined
    THEN Throw(ReadOfUndefined("id"))
    ELSE Return(PayloadValue(resp.body.result))

\* What the first curl invocation leads to: a follow-up to the redirect URL,
\* a repetition of the request to the API URL, or an error.
CurlStep1(name, resp) ==
    IF resp.fault # "" THEN Throw(PlainError("Command failed: curl"))
    ELSE LET lines == Step1Lines(resp)
             httpCode == HttpCodeOf(lines)
             redirectUrl == RedirectUrlOf(lines)
         IN IF httpCode = "307" /\ redirectUrl # ""
            THEN Follow(redirectUrl)
            ELSE IF httpCode \in {"200", "201"}
            THEN Follow(DEFAULT_BASE_URL \o ApiPath(name))
            ELSE Throw(PlainError("Unexpected HTTP status: " \o httpCode))

(***************************************************************************)
(* index.ts: the CallTool request handler                                  *)
(***************************************************************************)
CallIdle ==
    [pc |-> "idle", name |-> "", stage |-> "", path |-> "", kinds |-> <<>>,
     handled |-> FALSE, reqs |-> <<>>, resps |-> <<>>, caught |-> NoError,
     members |-> <<>>, madeDir |-> "", savedTo |-> "", result |-> NoResult]

\* A variant that stamps the result with the number of calls in flight, as a
\* counter shared between the calls would; C18 rejects it.
FinishedNumbered(call, res) ==
    [call EXCEPT !.pc = "done",
                 !.result = [res EXCEPT !.value =
                     @ \o "#" \o ToString(Cardinality({d \in CallIds : calls[d].pc = "await"}))]]

Finished(call, res) == [call EXCEPT !.pc = "done", !.result = res]

\* A variant of the handlers' catch block that lets the error go on to the
\* process as an unhandled rejection; C16 rejects it.
CaughtByNobody(call, e) == [call EXCEPT !.pc = "rejected", !.caught = e]

Caught(call, e) ==
    [call EXCEPT !.pc = "done", !.caught = e, !.result = HandlerCatch(call.name, e)]
Awaiting(call, stage, req) ==
    [call EXCEPT !.pc = "await", !.stage = stage, !.reqs = Append(@, req)]

\* getClient()
getClient(inst) ==
    IF inst = "null"
    THEN Throw(PlainError("Dooray client not initialized. Call initializeClient() first."))
    ELSE Return(NoValue)

\* The handler from its entry to its first await.
HandlerStart(b, call, inst, env, files) ==
    IF CurlTool(b, call.name)
    THEN IF env = ""
         THEN Caught(call, PlainError("DOORAY_API_TOKEN environment variable is required"))
         ELSE IF files[call.path] = Absent
         THEN Caught(call, PlainError("File not found: " \o call.path))
         ELSE Awaiting(call, "curl1",
                       CurlRequest(call.name, DEFAULT_BASE_URL \o ApiPath(call.name),
                                   env, call.path))
    ELSE IF getClient(inst).tag = "throw"
    THEN Caught(call, getClient(inst).error)
    ELSE IF TransferTool(b, call.name)
    THEN Awaiting(call, "transfer1",
                  TransferRequest1(inst, TransferOp(call.name), ApiPath(call.name),
                                   ApiPayload(call.name)))
    ELSE IF call.name \in PageTools
    THEN Awaiting(call, "page",
                  VerbRequest(inst, "getPaginated", ApiPath(call.name),
                              ApiPayload(call.name)))
    ELSE Awaiting(call, "verb",
                  VerbRequest(inst, VerbOf(call.name), ApiPath(call.name),
                              IF call.name \in TaskTools
                              THEN updateTask(updateTaskParams(call.kinds))
                              ELSE ApiPayload(call.name)))

\* A variant of the request handler that skips schema.parse; C2 rejects it.
DispatchWithoutParse(b, name, kinds, path, inst, env, files) ==
    LET call == [CallIdle EXCEPT !.name = name, !.path = path, !.kinds = kinds]
        look == Lookup(b, name)
    IN IF look = "undefined" THEN Finished(call, UnknownToolResult(name))
       ELSE IF look = "inherited"
       THEN Finished(call, DispatcherCatch(ReadOfUndefined("parse")))
       ELSE HandlerStart(b, [call EXCEPT !.handled = TRUE], inst, env, files)

\* The request handler from its entry to its first await: registry lookup,
\* schema.parse(args || {}), then the tool's handler.
Dispatch(b, name, kinds, path, inst, env, files) ==
    LET call == [CallIdle EXCEPT !.name = name, !.path = path, !.kinds = kinds]
        look == Lookup(b, name)
    IN IF look = "undefined" THEN Finished(call, UnknownToolResult(name))
       ELSE IF look = "inherited"
       THEN Finished(call, DispatcherCatch(ReadOfUndefined("parse")))
       ELSE LET issues == ZodIssues(Schema(b, name), kinds)
            IN IF issues # <<>>
               THEN Finished(call, DispatcherCatch(ZodError(issues)))
               ELSE HandlerStart(b, [call EXCEPT !.handled = TRUE], inst, env, files)

\* Pending is the entry of a member whose details have not arrived.
PendingMember == "pending"

\* A paginated tool's handler once getPaginated has returned the page.
PageHandler(call, inst, page) ==
    CASE call.name = "get-project-list" ->
            LET r == filterPaginatedResponse(page)
            IN Finished(call, ToolResult(PageText(r.totalCount, r.data), "absent"))
      [] call.name = "get-project-member-group-list" ->
            LET r == getProjectMemberGroups(page)
            IN IF r.payload = Undefined
               THEN Caught(call, ReadOfUndefined("map"))
               ELSE Finished(call,
                        ToolResult(PageText(r.totalCount,
                                       [i \in 1..Len(r.items) |-> FilterForList(r.items[i])]),
                                   "absent"))
      [] call.name = "get-project-member-list" ->
            IF page.payload = Undefined
            THEN Caught(call, ReadOfUndefined("map"))
            ELSE IF page.items = <<>>
            THEN Finished(call, ToolResult(PageText(page.totalCount, <<>>), "absent"))
            ELSE [call EXCEPT
                    !.pc = "await", !.stage = "members",
                    !.reqs = @ \o [i \in 1..Len(page.items) |->
                                      MemberDetailsRequest(inst, page.items[i])],
                    !.members = [i \in 1..Len(page.items) |-> PendingMember]]

\* getProjectMemberListHandler when the details of member i settle: the
\* entry is filled in, and Promise.all resolves once no entry is pending.
MemberResume(call, i, resp) ==
    LET pm == call.resps[1].body.items[i]
        c == [call EXCEPT !.resps = Append(@, resp),
                          !.members[i] = MemberOutcome(pm, resp)]
    IN IF \E j \in 1..Len(c.members) : c.members[j] = PendingMember
       THEN c
       ELSE Finished(c, ToolResult(PageText(call.resps[1].body.totalCount, c.members),
                                   "absent"))

\* The handler resumes with the answer to its pending request.
\* A variant in which a failed write leaves the handler as a rejection;
\* C22 rejects it.
SaveDownloadRaising(call, f) ==
    IF pathDirname(call.path) = "/readonly"
    THEN CaughtByNobody(call, PlainError("EACCES: permission denied"))
    ELSE Finished([call EXCEPT !.savedTo = call.path],
                  ToolResult(SavedText(f, call.path), "absent"))

\* The savePath branch of the download handlers. No savePath of the model
\* names an existing directory without a trailing "/", so the directory test
\* is the one on the trailing "/". The directory is made if it is missing,
\* then the file is written; a write under /readonly throws inside the try.
SaveDownload(call, f) ==
    LET filename == extractFilename(f.contentDisposition)
        isDirectory == SplitPath(call.path)[Len(SplitPath(call.path))] = ""
        targetPath == IF isDirectory
                      THEN pathJoin(call.path, IF filename # Undefined THEN filename
                                               ELSE "drive-file-1")
                      ELSE call.path
        dir == IF isDirectory THEN PathOf(NormalizeSegments(<<>>, SplitPath(call.path)))
               ELSE pathDirname(targetPath)
    IN IF pathDirname(call.path) = "/readonly"
       THEN Caught([call EXCEPT !.madeDir = dir],
                   PlainError("EACCES: permission denied, open '" \o targetPath \o "'"))
       ELSE Finished([call EXCEPT !.madeDir = dir, !.savedTo = targetPath],
                     ToolResult(SavedText(f, targetPath), "absent"))

HandlerResume(b, call, inst, env, resp) ==
    LET c == [call EXCEPT !.resps = Append(@, resp)]
        settle(out, text) ==
            IF out.tag = "throw" THEN Caught(c, out.error)
            ELSE IF out.value.kind = "file" /\ call.path # ""
            THEN SaveDownload(c, out.value.file)
            ELSE Finished(c, ToolResult(text, "absent"))
    IN CASE call.stage = "verb" ->
              LET out == VerbOutcome(VerbOf(call.name), resp)
              IN settle(out, VerbSuccessText(call.name, out.value))
         [] call.stage = "page" ->
              LET out == VerbOutcome("getPaginated", resp)
              IN IF out.tag = "throw" THEN Caught(c, out.error)
                 ELSE PageHandler(c, inst, out.value)
         [] call.stage = "transfer1" ->
              LET out == TransferStep1(TransferOp(call.name), resp)
              IN IF out.tag = "follow"
                 THEN Awaiting(c, "transfer2",
                               TransferRequest2(inst, TransferOp(call.name),
                                                out.location, ApiPayload(call.name)))
                 ELSE settle(out, TransferSuccessText(call.name, out.value))
         [] call.stage = "transfer2" ->
              LET out == TransferStep2(TransferOp(call.name), resp)
              IN settle(out, TransferSuccessText(call.name, out.value))
         [] call.stage = "curl1" ->
              LET out == CurlStep1(call.name, resp)
              IN IF out.tag = "follow"
                 THEN Awaiting(c, "curl2",
                               CurlRequest(call.name, out.location, env, call.path))
                 ELSE Caught(c, out.error)
         [] call.stage = "curl2" ->
              LET out == CurlFinish(call.name, resp)
              IN settle(out, UploadSuccessText(out.value.payload))

\* The answers the remote may give to the pending request of a call.
ResponsesFor(b, call) ==
    CASE call.stage = "verb" -> ApiResponses
      [] call.stage = "page" ->
            IF call.name = "get-project-member-group-list" THEN GroupResponses
            ELSE PageResponses
      [] call.stage = "transfer1" -> Responses1(TransferOp(call.name))
      [] call.stage = "transfer2" -> Responses2(TransferOp(call.name))
      [] call.stage = "curl1" -> UploadResponses1
      [] call.stage = "curl2" -> UploadResponses2
      [] OTHER -> {}

AllResponses ==
    ApiResponses \cup UploadResponses1 \cup UploadResponses2
    \cup DownloadResponses1 \cup DownloadResponses2 \cup GroupResponses

\* process.on('uncaughtException' | 'unhandledRejection'): an error that no
\* catch block took (pc "rejected") ends the process with code 1.
processOn(call, p, code) ==
    IF call.pc = "rejected" THEN [proc |-> "exited", exitCode |-> 1]
    ELSE [proc |-> p, exitCode |-> code]

\* A variant of the write that appends to the file instead of replacing its
\* content; C19 rejects it.
writeFileAppending(files, call) ==
    IF call.pc = "done" /\ call.savedTo # ""
    THEN [files EXCEPT ![call.savedTo] =
             (IF @ = Absent THEN "" ELSE @) \o call.resps[Len(call.resps)].bytes]
    ELSE files

\* fs.writeFileSync(targetPath, Buffer.from(result.data)) of a download that
\* saves its payload: the file is created or replaced in one synchronous call.
writeFileSync(files, call) ==
    IF call.pc = "done" /\ call.savedTo # ""
    THEN [files EXCEPT ![call.savedTo] = call.resps[Len(call.resps)].bytes]
    ELSE files

\* if (!fs.existsSync(dir)) fs.mkdirSync(dir, { recursive: true })
mkdirSync(files, call) ==
    IF call.pc = "done" /\ call.madeDir \in DOMAIN files /\ files[call.madeDir] = Absent
    THEN [files EXCEPT ![call.madeDir] = Dir]
    ELSE files

\* One turn of the event loop on behalf of call c, which leaves it as `call`.
Turn(c, call) ==
    /\ calls' = [calls EXCEPT ![c] = call]
    /\ fs' = writeFileSync(mkdirSync(fs, call), call)
    /\ proc' = processOn(call, proc, exitCode).proc
    /\ exitCode' = processOn(call, proc, exitCode).exitCode

RequestedNames == ProjectTools \cup DriveTools \cup {"unknown-tool", "constructor"}

NoneDone == \A d \in CallIds : calls[d].pc # "done"

\* A CallTool request arrives and runs to its first await or to its result.
CallTool(c, name, kinds, path) ==
    /\ proc = "serving"
    /\ NoneDone
    /\ calls[c].pc = "idle"
    /\ Turn(c, Dispatch(build, name, kinds, path, clientInstance, envToken, fs))
    /\ UNCHANGED <<envToken, build, clientInstance, cl>>

\* The remote answers the pending request of call c; the handler runs to its
\* next await or to its result.
Respond(c, resp) ==
    /\ proc = "serving"
    /\ NoneDone
    /\ calls[c].pc = "await"
    /\ resp \in ResponsesFor(build, calls[c])
    /\ Turn(c, HandlerResume(build, calls[c], clientInstance, envToken, resp))
    /\ UNCHANGED <<envToken, build, clientInstance, cl>>

\* The remote answers the details request of member i of call c.
RespondMember(c, i, resp) ==
    /\ proc = "serving"
    /\ NoneDone
    /\ calls[c].pc = "await"
    /\ calls[c].stage = "members"
    /\ i \in 1..Len(calls[c].members)
    /\ calls[c].members[i] = PendingMember
    /\ resp \in MemberResponses
    /\ Turn(c, MemberResume(calls[c], i, resp))
    /\ UNCHANGED <<envToken, build, clientInstance, cl>>

\* The result of call c is written to the transport, in the same turn of the
\* event loop in which the handler returned.
Deliver(c) ==
    /\ calls[c].pc = "done"
    /\ calls' = [calls EXCEPT ![c] = CallIdle]
    /\ UNCHANGED <<proc, exitCode, fs, envToken, build, clientInstance, cl>>

(***************************************************************************)
(* index.ts: main                                                          *)
(***************************************************************************)
\* new DoorayClient(config) refuses an empty token
initializeClient(apiToken) ==
    IF apiToken = ""
    THEN Throw(AuthenticationError("DOORAY_API_TOKEN is required as environment variable"))
    ELSE Return(NoValue)

\* A variant of main that connects the transport without having called
\* initializeClient; C14 rejects it.
MainWithoutInitialize ==
    /\ proc = "starting"
    /\ IF envToken = ""
       THEN proc' = "exited" /\ exitCode' = 1
       ELSE proc' = "serving" /\ UNCHANGED exitCode
    /\ UNCHANGED <<clientInstance, fs, envToken, build, calls, cl>>

\* A variant of main that logs a missing token and goes on to serve; C15
\* rejects it.
MainIgnoringToken ==
    /\ proc = "starting"
    /\ proc' = "serving"
    /\ clientInstance' = IF envToken = "" THEN clientInstance ELSE envToken
    /\ UNCHANGED <<exitCode, fs, envToken, build, calls, cl>>

Main ==
    /\ proc = "starting"
    /\ IF envToken = "" \/ initializeClient(envToken).tag = "throw"
       THEN proc' = "exited" /\ exitCode' = 1 /\ UNCHANGED clientInstance
       ELSE proc' = "serving" /\ clientInstance' = envToken /\ UNCHANGED exitCode
    /\ UNCHANGED <<fs, envToken, build, calls, cl>>

Init ==
    /\ proc = "starting"
    /\ exitCode = -1
    /\ fs = [p \in FsPaths |-> IF p = "/tmp/a.txt" THEN "contentA" ELSE Absent]
    /\ envToken \in {"", Token}
    /\ build \in Builds
    /\ clientInstance = "null"
    /\ calls = [c \in CallIds |-> CallIdle]
    /\ cl = ClientIdle

\* The server: startup, then CallTool requests.
Next ==
    \/ Main
    \/ \E c \in CallIds, name \in RequestedNames :
          \E kinds \in ArgCases(IF name \in toolRegistry(build)
                                THEN Schema(build, name) ELSE <<>>),
             path \in (IF CurlTool(build, name) THEN Paths ELSE {""}) :
             CallTool(c, name, kinds, path)
    \/ \E c \in CallIds, resp \in AllResponses : Respond(c, resp)
    \/ \E c \in CallIds, i \in 1..MaxItems, resp \in MemberResponses :
          RespondMember(c, i, resp)
    \/ \E c \in CallIds : Deliver(c)

Spec == Init /\ [][Next]_vars

\* The server with the tools that read and write local files: downloads that
\* save to a path, and an upload that reads one.
FileTools == {"download-drive-file", "upload-drive-file", "upload-attachment"}
NextFiles ==
    \/ Main
    \/ \E c \in CallIds, name \in FileTools \cap toolRegistry(build) :
          \E kinds \in {[f \in Range(Schema(build, name)) |-> "ok"]},
             path \in (IF CurlTool(build, name) THEN Paths
                      ELSE IF name = "download-drive-file" THEN SavePaths \cup {""}
                      ELSE {""}) :
             CallTool(c, name, kinds, path)
    \/ \E c \in CallIds, resp \in AllResponses : Respond(c, resp)
    \/ \E c \in CallIds : Deliver(c)

SpecFiles == Init /\ [][NextFiles]_vars

\* The server called with update-task only: the two required arguments are
\* valid and each optional one is given or not (a member list may be empty).
UpdateTaskArgs ==
    {k \in [{"projectId", "taskId", "subject", "assignees", "cc", "workflowId"}
               -> {"ok", "absent", "empty"}] :
        /\ k["projectId"] = "ok" /\ k["taskId"] = "ok"
        /\ k["subject"] # "empty" /\ k["workflowId"] # "empty"}

NextTask ==
    \/ Main
    \/ \E c \in CallIds, kinds \in UpdateTaskArgs : CallTool(c, "update-task", kinds, "")
    \/ \E c \in CallIds, resp \in AllResponses : Respond(c, resp)
    \/ \E c \in CallIds : Deliver(c)

SpecTask == Init /\ [][NextTask]_vars

\* The dispatcher's try/catch around a handler that lets an exception
\* escape. Every handler of the repository wraps its whole body in its own
\* try/catch, so this happens only with a handler that does not; the catch
\* block treats whatever carries an errors property as a validation error.
EscapingErrors ==
    {PlainError("boom"),
     DoorayAPIError("Server error", 500, UndefinedData),
     ZodError(<<[path |-> <<"result">>, message |-> "Required"]>>)}

CallRejecting(c, e) ==
    /\ proc = "serving"
    /\ NoneDone
    /\ calls[c].pc = "idle"
    /\ Turn(c, Finished([CallIdle EXCEPT !.name = "create-task",
                                         !.kinds = [f \in {"projectId", "subject"} |-> "ok"],
                                         !.handled = TRUE, !.stage = "escaped",
                                         !.caught = e],
                        DispatcherCatch(e)))
    /\ UNCHANGED <<envToken, build, clientInstance, cl>>

NextDispatch == Next \/ \E c \in CallIds, e \in EscapingErrors : CallRejecting(c, e)

SpecDispatch == Init /\ [][NextDispatch]_vars

\* A variant of the tools array that depends on what the server is doing;
\* C21 rejects it.
toolsWhileIdle(b) ==
    IF \A d \in CallIds : calls[d].pc = "idle"
    THEN <<"get-my-member-info", "get-project-list">>
    ELSE <<"get-my-member-info">>

\* The tools array: the name of each Tool object it holds, in its order.
tools(b) ==
    <<"get-my-member-info", "get-project-list", "create-task", "update-task",
      "update-task-comment", "get-project-member-list", "get-project-member-group-list", "upload-attachment">>
    \o (IF b = "full"
        THEN <<"upload-drive-file", "download-drive-file", "update-drive-file">>
        ELSE <<>>)

\* what the ListTools handler returns: { tools }
ListToolsResult(b) ==
    [shape |-> "tools",
     content |-> [i \in 1..Len(tools(b)) |-> [type |-> "tool", text |-> tools(b)[i]]],
     isError |-> "absent", value |-> ""]

\* A ListTools request arrives and is answered in the same turn.
ListTools(c) ==
    /\ proc = "serving"
    /\ NoneDone
    /\ calls[c].pc = "idle"
    /\ Turn(c, Finished([CallIdle EXCEPT !.name = "tools/list"], ListToolsResult(build)))
    /\ UNCHANGED <<envToken, build, clientInstance, cl>>

\* The server with its two request handlers, for tools/call and tools/list.
NextList == Next \/ \E c \in CallIds : ListTools(c)

SpecList == Init /\ [][NextList]_vars

\* The timeouts of the axios clients, in milliseconds: the shared client's and
\* the ones the transfer operations create for each of their two steps.
ClientTimeout == 30000
TransferTimeout == 60000

TimeoutOf(stage) ==
    IF stage \in {"transfer1", "transfer2"} THEN TransferTimeout ELSE ClientTimeout

\* the fault axios raises when its timeout expires before the response
TimeoutFault(ms) == Fault("timeout of " \o ToString(ms) \o "ms exceeded")

\* The timer of a pending axios request of call c expires. The curl commands
\* of the upload tools run under execAsync with no timeout and no --max-time,
\* so no timer ever ends them.
Timeout(c) ==
    /\ proc = "serving"
    /\ NoneDone
    /\ calls[c].pc = "await"
    /\ calls[c].stage \notin {"curl1", "curl2"}
    /\ IF calls[c].stage = "members"
       THEN \E i \in 1..Len(calls[c].members) :
               /\ calls[c].members[i] = PendingMember
               /\ Turn(c, MemberResume(calls[c], i, TimeoutFault(ClientTimeout)))
       ELSE Turn(c, HandlerResume(build, calls[c], clientInstance, envToken,
                                  TimeoutFault(TimeoutOf(calls[c].stage))))
    /\ UNCHANGED <<envToken, build, clientInstance, cl>>

\* The server with its timers. main() runs once the process starts, a
\* finished handler's result is sent in the same turn, and a timer that is
\* armed fires even while other calls keep the event loop busy; nothing
\* obliges the remote to answer.
NextLive == Next \/ \E c \in CallIds : Timeout(c)

SpecLive ==
    /\ Init
    /\ [][NextLive]_vars
    /\ WF_vars(Main)
    /\ \A c \in CallIds : WF_vars(Deliver(c)) /\ SF_vars(Timeout(c))

\* The client alone: startup, then operations called one at a time.
NextClient ==
    \/ Main
    \/ \E op \in ClientOps, url \in ClientUrls, data \in ClientData :
          ClientCall(op, url, data)
    \/ \E resp \in AllResponses : ClientRespond1(resp)
    \/ \E resp \in AllResponses : ClientRespond2(resp)
    \/ ClientReset

SpecClient == Init /\ [][NextClient]_vars

(***************************************************************************)
(* Properties of the dispatcher (Spec)                                     *)
(***************************************************************************)
TextOf(r) == r.content[1].text

\* An object with a content list of {type:"text", text:string} items whose
\* isError, when present, is a boolean.
WellFormedToolResult(r) ==
    /\ r.shape = "object"
    /\ Len(r.content) >= 1
    /\ \A i \in 1..Len(r.content) :
          r.content[i].type = "text" /\ r.content[i].text # Undefined
    /\ r.isError \in {"true", "false", "absent"}

\* The value is an error report: a result flagged isError, never a success.
ReportsError(r) == r.shape = "object" /\ r.isError = "true"

\* C1: every CallTool request resolves to a well-formed ToolResult, whatever
\* the name, the arguments and the remote's answers.
C1_WellFormedResult ==
    \A c \in CallIds : calls[c].pc = "done" => WellFormedToolResult(calls[c].result)

IssuesOf(c) == ZodIssues(Schema(build, calls[c].name), calls[c].kinds)
FailsSchema(c) ==
    /\ calls[c].pc # "idle"
    /\ calls[c].name \in toolRegistry(build)
    /\ IssuesOf(c) # <<>>
FieldMessages(issues) ==
    [i \in 1..Len(issues) |-> issues[i].path[1] \o ": " \o issues[i].message]

SubjectMissing == [f \in {"projectId", "subject"} |-> IF f = "subject" THEN "missing" ELSE "ok"]
BothInvalid == [f \in {"projectId", "subject"} |-> IF f = "subject" THEN "number" ELSE "missing"]

\* C2: arguments that fail the registered tool's schema give isError:true
\* with "Validation Error: " and the per-field messages joined by ", "; the
\* handler does not run and no request is sent.
C2_ValidationError ==
    \A c \in CallIds :
        FailsSchema(c) =>
            /\ calls[c].pc = "done"
            /\ calls[c].result =
                  ToolResult("Validation Error: "
                             \o Join(FieldMessages(IssuesOf(c)), ", "), "true")
            /\ ~calls[c].handled
            /\ calls[c].reqs = <<>>
            /\ (calls[c].name = "create-task" /\ calls[c].kinds = SubjectMissing
                  => TextOf(calls[c].result) = "Validation Error: subject: Required")

C2_Witness ==
    \E c \in CallIds :
        /\ calls[c].pc = "done"
        /\ calls[c].name = "create-task"
        /\ calls[c].kinds = BothInvalid
        /\ TextOf(calls[c].result) =
              "Validation Error: projectId: Required, subject: Expected string, received number"

\* C3: a name that is not a registered tool gives isError:true with
\* "Error: Unknown tool '<name>'" and sends no request.
C3_UnknownTool ==
    \A c \in CallIds :
        calls[c].pc = "done" /\ calls[c].name \notin toolRegistry(build) =>
            /\ calls[c].result =
                  ToolResult("Error: Unknown tool '" \o calls[c].name \o "'", "true")
            /\ calls[c].reqs = <<>>

Got401(c) == \E i \in 1..Len(calls[c].resps) : calls[c].resps[i].status = 401

TransferAnswered(c) ==
    /\ calls[c].pc # "idle"
    /\ calls[c].handled
    /\ CurlTool(build, calls[c].name) \/ TransferTool(build, calls[c].name)
    /\ Len(calls[c].resps) >= 1
    /\ calls[c].resps[1].fault = ""

\* C6: when the first answer of a file transfer is 2xx the transfer succeeds
\* with it and no second request is sent (client operations and upload tools).
C6_DirectSuccess ==
    \A c \in CallIds :
        TransferAnswered(c) /\ Is2xx(calls[c].resps[1].status) =>
            /\ calls[c].pc = "done"
            /\ Len(calls[c].reqs) = 1
            /\ calls[c].result.shape = "object"
            /\ calls[c].result.isError = "absent"

\* C8: a first answer that is neither 307 nor 2xx fails the transfer with a
\* DoorayAPIError carrying that status, and no second request is sent.
C8_UnexpectedStatus ==
    \A c \in CallIds :
        /\ TransferAnswered(c)
        /\ ~Is2xx(calls[c].resps[1].status)
        /\ calls[c].resps[1].status # 307
        => /\ calls[c].pc = "done"
           /\ Len(calls[c].reqs) = 1
           /\ IsDoorayAPIError(calls[c].caught)
           /\ calls[c].caught.statusCode = calls[c].resps[1].status

(***************************************************************************)
(* Properties of the client (SpecClient)                                   *)
(***************************************************************************)
ClientGot401 == \E i \in 1..Len(cl.resps) : cl.resps[i].status = 401

\* C5: every client operation fails with AuthenticationError when a response
\* has status 401, in either leg of a transfer too.
C5_AuthenticationErrorOn401 ==
    cl.pc = "done" /\ ClientGot401 =>
        /\ cl.outcome.tag = "throw"
        /\ cl.outcome.error.class = "AuthenticationError"

IsTransferOp == cl.op \in {"uploadFile", "downloadFile"}

\* The first answer of a transfer was 307 with a Location.
Redirected ==
    /\ IsTransferOp
    /\ Len(cl.resps) >= 1
    /\ cl.resps[1].status = 307
    /\ cl.resps[1].location # ""

Authoritative == cl.resps[Len(cl.resps)]

\* C9: uploadFile returns the unwrapped payload of the authoritative answer
\* and fails with DoorayAPIError when its envelope says success=false.
C9_UploadUnwraps ==
    /\ cl.pc = "done"
    /\ cl.op = "uploadFile"
    /\ Authoritative.fault = ""
    /\ Is2xx(Authoritative.status)
    /\ Authoritative.body.shape = "envelope"
    => IF Authoritative.body.isSuccessful
       THEN cl.outcome = Return(PayloadValue(Authoritative.body.result))
       ELSE cl.outcome.tag = "throw" /\ IsDoorayAPIError(cl.outcome.error)

VerbAnswered ==
    /\ cl.pc = "done"
    /\ cl.op \in Verbs
    /\ cl.resps[1].fault = ""

\* C10 as claimed: every status outside 2xx fails with a DoorayAPIError that
\* carries the status and the raw response body.
C10_Original ==
    VerbAnswered /\ ~Is2xx(cl.resps[1].status) =>
        /\ cl.outcome.tag = "throw"
        /\ IsDoorayAPIError(cl.outcome.error)
        /\ cl.outcome.error.statusCode = cl.resps[1].status
        /\ cl.outcome.error.responseData = cl.resps[1].body

\* C10 as amended: a status outside 2xx fails with a DoorayAPIError carrying
\* the status and, unless the status is 401, the raw body (401 gives an
\* AuthenticationError with status 401 and no body); a 2xx envelope with
\* success=false fails with DoorayAPIError; only a 2xx envelope with
\* success=true returns, and it returns the envelope's payload.
C10_VerbOutcome ==
    VerbAnswered =>
        LET r == cl.resps[1]
            out == cl.outcome
        IN /\ ~Is2xx(r.status) =>
                /\ out.tag = "throw"
                /\ IsDoorayAPIError(out.error)
                /\ out.error.statusCode = r.status
                /\ IF r.status = 401
                   THEN /\ out.error.class = "AuthenticationError"
                        /\ out.error.responseData = UndefinedData
                   ELSE /\ out.error.class = "DoorayAPIError"
                        /\ out.error.responseData = r.body
           /\ Is2xx(r.status) /\ r.body.shape = "envelope" /\ ~r.body.isSuccessful =>
                /\ out.tag = "throw"
                /\ out.error.class = "DoorayAPIError"
                /\ out.error.statusCode = r.status
                /\ out.error.responseData = r.body
           /\ Is2xx(r.status) /\ r.body.shape = "envelope" /\ r.body.isSuccessful =>
                out = Return(PayloadValue(r.body.result))
           /\ out.tag = "return" =>
                Is2xx(r.status) /\ r.body.shape = "envelope" /\ r.body.isSuccessful

C10_Witness ==
    /\ VerbAnswered
    /\ cl.op = "patch"
    /\ cl.resps[1].status = 200
    /\ ~cl.resps[1].body.isSuccessful
    /\ cl.resps[1].body.shape = "envelope"
    /\ cl.outcome.tag = "throw"
    /\ cl.outcome.error.message = "biz failure"

\* A verb's response reached extractResult: 2xx with an envelope as body.
Unwrapped ==
    /\ VerbAnswered
    /\ Is2xx(cl.resps[1].status)
    /\ cl.resps[1].body.shape = "envelope"

\* C11 as claimed: unwrap of an envelope with success=true returns its
\* payload; with success=false it fails with a DoorayAPIError whose message
\* equals the envelope's message field and which carries the HTTP status and
\* the raw response.
C11_Original ==
    Unwrapped =>
        LET r == cl.resps[1]
        IN IF r.body.isSuccessful
           THEN cl.outcome = Return(PayloadValue(r.body.result))
           ELSE /\ cl.outcome.tag = "throw"
                /\ cl.outcome.error.class = "DoorayAPIError"
                /\ cl.outcome.error.message = r.body.resultMessage
                /\ cl.outcome.error.statusCode = r.status
                /\ cl.outcome.error.responseData = r.body

\* C11 as amended: as claimed, except that the error's message is the
\* envelope's resultMessage only when that is non-empty, and is
\* "API request failed" when the envelope has no or an empty resultMessage.
C11_Unwrap ==
    Unwrapped =>
        LET r == cl.resps[1]
        IN IF r.body.isSuccessful
           THEN cl.outcome = Return(PayloadValue(r.body.result))
           ELSE /\ cl.outcome.tag = "throw"
                /\ cl.outcome.error.class = "DoorayAPIError"
                /\ cl.outcome.error.message =
                      (IF r.body.resultMessage # "" THEN r.body.resultMessage
                       ELSE "API request failed")
                /\ cl.outcome.error.statusCode = r.status
                /\ cl.outcome.error.responseData = r.body

C11_Witness ==
    /\ Unwrapped
    /\ cl.op = "get"
    /\ ~cl.resps[1].body.isSuccessful
    /\ cl.resps[1].body.resultMessage = ""
    /\ cl.outcome.error.message = "API request failed"
    /\ cl.outcome.error.statusCode = 200

(***************************************************************************)
(* Properties of the paginated tools (Spec)                                *)
(***************************************************************************)
\* Call c is a paginated read that ended with a success result.
PageReturned(c) ==
    /\ calls[c].pc = "done"
    /\ calls[c].name \in PageTools
    /\ calls[c].result.shape = "object"
    /\ calls[c].result.isError = "absent"

\* C12: the totalCount of a paginated result is the totalCount of the wire
\* response, whatever the number of items and whatever filtering, flattening
\* or enriching is done to the data; the data are the response's items.
C12_TotalCountPassedThrough ==
    \A c \in CallIds :
        PageReturned(c) =>
            LET page == calls[c].resps[1].body
            IN /\ page.shape = "envelope" /\ page.isSuccessful
               /\ TextOf(calls[c].result) =
                     PageText(page.totalCount,
                              IF calls[c].name = "get-project-member-list"
                              THEN calls[c].members
                              ELSE [i \in 1..Len(page.items) |->
                                       "{id:" \o page.items[i] \o "}"])
               /\ page.totalCount = 7 /\ Len(page.items) = 1
                  /\ calls[c].name = "get-project-list"
                  => TextOf(calls[c].result) = "{totalCount:7,data:[{id:m1}]}"

C12_Witness ==
    \E c \in CallIds :
        /\ PageReturned(c)
        /\ calls[c].name = "get-project-member-group-list"
        /\ calls[c].resps[1].body.nested
        /\ Len(calls[c].resps[1].body.items) = 2
        /\ TextOf(calls[c].result) = "{totalCount:1,data:[{id:m1},{id:m2}]}"

(***************************************************************************)
(* Properties of the credential and the process (Spec)                     *)
(***************************************************************************)
\* C13: every request sent to the remote, by the client's verbs, by either
\* leg of a transfer and by the curl-based tools, carries the header
\* Authorization: dooray-api <token> with the token the process started with.
C13_AuthorizationOnEveryRequest ==
    \A c \in CallIds :
        \A i \in 1..Len(calls[c].reqs) :
            /\ envToken # ""
            /\ calls[c].reqs[i].auth = "dooray-api " \o envToken

C13_Witness ==
    \E c, d \in CallIds :
        /\ calls[c].stage = "curl2"
        /\ Len(calls[c].reqs) = 2
        /\ calls[c].reqs[2].auth = "dooray-api tok"
        /\ calls[d].stage = "transfer2"
        /\ calls[d].reqs[2].via = "secondClient"
        /\ calls[d].reqs[2].auth = "dooray-api tok"

NotInitialized == "Dooray client not initialized. Call initializeClient() first."

\* C14: the client is initialized once, in main, before any request is
\* dispatched or sent, and is never replaced afterwards: whenever a handler
\* runs getClient returns the client holding the startup token, and no call
\* fails with "not initialized".
C14_ClientInitializedOnce ==
    /\ [](\A c \in CallIds :
            calls[c].pc # "idle" =>
                /\ proc = "serving"
                /\ clientInstance = envToken
                /\ getClient(clientInstance).tag = "return"
                /\ calls[c].caught.message # NotInitialized)
    /\ [][clientInstance' # clientInstance =>
            /\ clientInstance = "null"
            /\ proc = "starting"
            /\ \A c \in CallIds : calls[c] = CallIdle]_vars

C14_Witness ==
    \E c \in CallIds :
        /\ calls[c].pc = "await"
        /\ calls[c].name = "get-my-member-info"
        /\ calls[c].handled
        /\ clientInstance = Token
        /\ calls[c].reqs[1].auth = "dooray-api tok"

TokenRequired == "DOORAY_API_TOKEN environment variable is required"

\* C15: without a token the process never serves: it exits with code 1 from
\* main, no client is created, no request is dispatched, and no tool call
\* ever reports the missing token as its result.
C15_MissingTokenIsFatal ==
    /\ envToken = "" =>
          /\ proc \in {"starting", "exited"}
          /\ proc = "exited" => exitCode = 1
          /\ clientInstance = "null"
          /\ \A c \in CallIds : calls[c] = CallIdle
    /\ \A c \in CallIds : calls[c].caught.message # TokenRequired

C15_Witness ==
    /\ envToken = ""
    /\ proc = "exited"
    /\ exitCode = 1
    /\ \A c \in CallIds : calls[c] = CallIdle

\* Call c ended in an error report.
Failed(c) == calls[c].pc = "done" /\ calls[c].result.isError = "true"

\* C16: once the process serves, no request and no remote, validation or
\* filesystem failure ends it; it exits only from main, before serving.
C16_OnlyStartupExits ==
    /\ [][proc = "serving" => proc' = "serving"]_vars
    /\ [](proc = "exited" =>
            /\ exitCode = 1
            /\ \A c \in CallIds : calls[c] = CallIdle)

C16_Witness ==
    \E c \in CallIds :
        /\ proc = "serving"
        /\ Failed(c)
        /\ calls[c].caught.message = "File not found: /tmp/missing.txt"

\* The remote failed request r: no response arrived, or an error status.
RemoteFault(r) == r.fault # "" \/ r.status >= 400

\* C17: a remote fault met by any request of a tool call ends that call at
\* once with an isError:true result, and a failed request is not sent again.
C17_FaultSurfaces ==
    \A c \in CallIds :
        (\E i \in 1..Len(calls[c].resps) : RemoteFault(calls[c].resps[i])) =>
            /\ calls[c].pc = "done"
            /\ ReportsError(calls[c].result)
            /\ RemoteFault(calls[c].resps[Len(calls[c].resps)])
            /\ Len(calls[c].reqs) = Len(calls[c].resps)


\* A step in which call c, a download with a savePath, writes its file.
Saved(c) ==
    /\ calls[c].pc = "await"
    /\ calls'[c].pc = "done"
    /\ calls'[c].savedTo # ""

FilePayloads == {r.bytes : r \in AllResponses} \ {""}

\* C19: a download that saves writes the complete payload it received to its
\* own path and touches no other path, no other step changes any file, and
\* so a path two concurrent downloads save to holds the whole payload of the
\* one that wrote last, never a mixture of the two.
C19_LastWriterWins ==
    /\ [][/\ \A c \in CallIds :
               Saved(c) =>
                 /\ fs'[calls'[c].savedTo] = calls'[c].resps[Len(calls'[c].resps)].bytes
                 /\ \A p \in FsPaths \ {calls'[c].savedTo, calls'[c].madeDir} :
                        fs'[p] = fs[p]
          /\ (\A c \in CallIds : ~Saved(c)) => fs' = fs]_vars
    /\ [](\A p \in FsPaths : fs[p] \in {Absent, Dir, "contentA"} \cup FilePayloads)

\* Two downloads to the same path overlap: one has just written the payload
\* "bytesB" over the file the other, still waiting, will write too.
C19_Witness ==
    \E c, d \in CallIds :
        /\ c # d
        /\ calls[c].pc = "done" /\ calls[c].savedTo = "/tmp/a.txt"
        /\ calls[d].pc = "await" /\ calls[d].path = "/tmp/a.txt"
        /\ calls[d].name = "download-drive-file"
        /\ fs["/tmp/a.txt"] = "bytesB"


\* The files as they are when the server starts.
FilesAtStart == [p \in FsPaths |-> IF p = "/tmp/a.txt" THEN "contentA" ELSE Absent]

\* The handler chain of one call run on its own: dispatched on its name and
\* arguments against the files `files`, then resumed on each of the remote
\* responses to its own requests, in their order.
RECURSIVE ReplayFrom(_, _)
ReplayFrom(call, resps) ==
    IF resps = <<>> \/ call.pc # "await" THEN call
    ELSE ReplayFrom(HandlerResume(build, call, clientInstance, envToken, Head(resps)),
                    Tail(resps))

Alone(call, files) ==
    ReplayFrom(Dispatch(build, call.name, call.kinds, call.path, clientInstance,
                        envToken, files),
               call.resps)

C20_EveryCallEnds ==
    \A c \in CallIds : (calls[c].pc = "await") ~> (calls[c].pc = "done")

\* The part of C20 the axios clients bear out: a call that is not waiting
\* for a curl command eventually has its result.
C20_AxiosCallsEnd ==
    \A c \in CallIds :
        (calls[c].pc = "await" /\ calls[c].stage \notin {"curl1", "curl2"})
           ~> (calls[c].pc = "done")


Listed(c) == calls[c].pc = "done" /\ calls[c].name = "tools/list"

\* C21: the registry is fixed when the process starts: no step changes the
\* build that determines its entries, and every ListTools request, in
\* whatever state it arrives, returns the same list.
C21_RegistryFixed ==
    /\ [](\A c \in CallIds : Listed(c) => calls[c].result = ListToolsResult(build))
    /\ [][/\ build' = build
          /\ toolRegistry(build') = toolRegistry(build)]_vars

\* A ListTools request was answered while a tool call was waiting for the
\* remote.
C21_Witness ==
    \E c, d \in CallIds :
        /\ Listed(c)
        /\ calls[d].pc = "await"
        /\ Len(calls[c].result.content) = Len(tools(build))


ListedNames(c) == [i \in 1..Len(calls[c].result.content) |-> calls[c].result.content[i].text]

UploadOfMissing(c) ==
    /\ calls[c].pc = "idle" /\ calls'[c].pc # "idle"
    /\ CurlTool(build, calls'[c].name)
    /\ fs[calls'[c].path] = Absent

\* A step in which a download whose destination cannot be written gets the
\* file from the remote.
UnwritableDownload(c) ==
    /\ calls[c].pc = "await" /\ calls'[c].pc # "await"
    /\ calls[c].path = "/readonly/x.bin"
    /\ calls'[c].resps[Len(calls'[c].resps)].bytes # ""

\* C22: an upload of a source file that does not exist ends at once in an
\* isError:true result without any remote request, and a download whose
\* destination cannot be written ends in an isError:true result: the server
\* goes on serving and no file changes.
C22_LocalFileErrors ==
    [][\A c \in CallIds :
          /\ UploadOfMissing(c) =>
                /\ calls'[c].pc = "done"
                /\ ReportsError(calls'[c].result)
                /\ calls'[c].reqs = <<>>
          /\ UnwritableDownload(c) =>
                /\ calls'[c].pc = "done"
                /\ ReportsError(calls'[c].result)
                /\ proc' = "serving"
                /\ fs' = fs]_vars

\* upload-attachment was called with a path that does not exist and is done
\* with its "File not found" result, while a download that is to save under
\* the read-only directory waits for the remote.
C22_Witness ==
    \E c, d \in CallIds :
        /\ calls[c].pc = "done" /\ calls[c].name = "upload-attachment"
        /\ calls[c].path = "/tmp/missing.txt" /\ fs["/tmp/missing.txt"] = Absent
        /\ calls[c].reqs = <<>>
        /\ TextOf(calls[c].result) = "Error: File not found: /tmp/missing.txt"
        /\ calls[d].pc = "await" /\ calls[d].path = "/readonly/x.bin"

\* A download got its file and could not write it.
C22_DownloadCase ==
    \E c \in CallIds :
        /\ calls[c].pc = "done" /\ calls[c].path = "/readonly/x.bin"
        /\ calls[c].resps[Len(calls[c].resps)].bytes # ""
        /\ calls[c].result.isError = "true"


\* the paths of the model that lie inside the directory /tmp/out
InsideOut == {"/tmp/out/a.png", "/tmp/out/b.pdf", "/tmp/out/drive-file-1"}

\* a step in which call c, a download, ends
DownloadEnds(c) ==
    /\ calls[c].pc = "await" /\ calls'[c].pc = "done"
    /\ calls[c].name = "download-drive-file"

\* C30: a download given a directory as savePath writes its file inside
\* that directory whatever Content-Disposition the remote sends; a download
\* without savePath writes nothing; and a download that fails creates and
\* changes no file or directory.
C30_SavedInsideDirectory ==
    [][\A c \in CallIds :
          DownloadEnds(c) =>
             /\ calls[c].path = "/tmp/out/" /\ calls'[c].savedTo # ""
                  => /\ calls'[c].savedTo \in InsideOut
                     /\ \A p \in FsPaths \ InsideOut : p # "/tmp/out" => fs'[p] = fs[p]
             /\ calls[c].path = "" => fs' = fs
             /\ calls'[c].caught # NoError /\ calls[c].path # "/readonly/x.bin"
                  => fs' = fs]_vars

\* the two parts of C30 that do not depend on the file name
C30_NoWriteWithoutSavePathOrOnFailure ==
    [][\A c \in CallIds :
          DownloadEnds(c) =>
             /\ calls[c].path = "" => fs' = fs
             /\ calls'[c].caught # NoError => fs' = fs]_vars

\* the directory case with a plain file name, or with none, stays inside
C30_PlainNamesStayInside ==
    [][\A c \in CallIds :
          /\ DownloadEnds(c)
          /\ calls[c].path = "/tmp/out/" /\ calls'[c].savedTo # ""
          /\ extractFilename(calls'[c].resps[Len(calls'[c].resps)].contentDisposition)
                # "../a.txt"
          => calls'[c].savedTo \in InsideOut]_vars


\* the URL of setTaskWorkflow for the project and task of the model
SetWorkflowUrl == DEFAULT_BASE_URL \o "/project/v1/projects/1/posts/1/set-workflow"

\* the body with a key exactly for each field the caller provided
ProvidedBody(kinds) ==
    JSONkeys((IF kinds["subject"] # "absent" THEN <<"subject">> ELSE <<>>)
             \o (IF kinds["assignees"] # "absent" \/ kinds["cc"] # "absent"
                 THEN <<"users:" \o JSONkeys(
                            (IF kinds["assignees"] # "absent" THEN <<"to">> ELSE <<>>)
                            \o (IF kinds["cc"] # "absent" THEN <<"cc">> ELSE <<>>))>>
                 ELSE <<>>)
             \o (IF kinds["workflowId"] # "absent" THEN <<"workflowId">> ELSE <<>>))

\* the request bodies that have a workflowId key
BodiesWithWorkflowId ==
    {ProvidedBody(k) : k \in {a \in UpdateTaskArgs : a["workflowId"] = "ok"}}

\* C23: an update-task call that was given a workflowId and ended with a
\* success result has issued a request that carries the workflowId: the
\* set-workflow request of the task, or an update whose body has the key.
C23_WorkflowIdIsSent ==
    \A c \in CallIds :
        /\ calls[c].pc = "done" /\ calls[c].name = "update-task"
        /\ calls[c].kinds["workflowId"] = "ok"
        /\ calls[c].result.isError # "true"
        => \E i \in 1..Len(calls[c].reqs) :
              \/ calls[c].reqs[i].url = SetWorkflowUrl
              \/ calls[c].reqs[i].payload \in BodiesWithWorkflowId

\* C24: the body of the update request of update-task has a key exactly for
\* each field the caller provided (assignees and cc under users) and none for
\* a field that was not provided.
C24_OnlyProvidedFields ==
    \A c \in CallIds :
        calls[c].name = "update-task" /\ Len(calls[c].reqs) >= 1
        => calls[c].reqs[1].payload = ProvidedBody(calls[c].kinds)


\* C26: a requested name that is a property every object inherits is not a
\* registered tool, and gets the result of any other unregistered name.
C26_InheritedNamesAreUnknown ==
    \A c \in CallIds :
        calls[c].pc = "done" /\ calls[c].name \in ObjectPrototypeKeys =>
            /\ Lookup(build, calls[c].name) = "undefined"
            /\ calls[c].result = UnknownToolResult(calls[c].name)


C25_PlainExceptions ==
    \A c \in CallIds :
        calls[c].pc = "done" /\ calls[c].handled =>
            IF calls[c].stage = "escaped"
            THEN calls[c].caught.errors = <<>> =>
                    calls[c].result = ToolResult("Error: " \o calls[c].caught.message, "true")
            ELSE calls[c].caught # NoError =>
                    calls[c].result = HandlerCatch(calls[c].name, calls[c].caught)


\* the first request of a transfer operation was answered 307 without a
\* Location header
BareRedirect ==
    /\ cl.pc # "idle" /\ cl.op \in {"uploadFile", "downloadFile"}
    /\ Len(cl.resps) >= 1
    /\ cl.resps[1].fault = "" /\ cl.resps[1].status = 307 /\ cl.resps[1].location = ""

\* C28: in uploadFile and downloadFile a first response 307 without a
\* Location header ends the operation with a DoorayAPIError, and the
\* operation has sent no second request.
C28_RedirectWithoutLocation ==
    BareRedirect =>
        /\ cl.pc = "done"
        /\ cl.outcome.tag = "throw"
        /\ cl.outcome.error =
              DoorayAPIError("307 redirect received but no Location header found",
                             0, UndefinedData)
        /\ Len(cl.reqs) = 1

C28_Witness == BareRedirect /\ cl.op = "uploadFile" /\ cl.pc = "done"


\* an ordinary verb, getPaginated included, has ended
OrdinaryVerbEnded ==
    cl.pc = "done" /\ cl.op \in Verbs \cup {"getPaginated"}

\* C29: an ordinary verb ends in one of three ways: it returns a value, or
\* it fails with AuthenticationError, or with DoorayAPIError. A transport
\* fault and a 2xx response whose body is not a well-formed envelope end
\* in a DoorayAPIError.
C29_ThreeOutcomes ==
    OrdinaryVerbEnded =>
        /\ \/ cl.outcome.tag = "return"
           \/ /\ cl.outcome.tag = "throw"
              /\ cl.outcome.error.class \in {"AuthenticationError", "DoorayAPIError"}
        /\ cl.resps[1].fault # "" \/ (Is2xx(cl.resps[1].status)
                                      /\ cl.resps[1].body.shape # "envelope")
             => cl.outcome.tag = "throw" /\ cl.outcome.error.class = "DoorayAPIError"

\* the part of C29 that holds: whatever is not a 2xx response without an
\* envelope ends in one of the three ways, a transport fault in a
\* DoorayAPIError
C29_ApartFromMalformedBodies ==
    OrdinaryVerbEnded
    /\ ~(cl.resps[1].fault = "" /\ Is2xx(cl.resps[1].status)
         /\ cl.resps[1].body.shape # "envelope")
    => /\ \/ cl.outcome.tag = "return"
          \/ /\ cl.outcome.tag = "throw"
             /\ cl.outcome.error.class \in {"AuthenticationError", "DoorayAPIError"}
       /\ cl.resps[1].fault # "" =>
             cl.outcome.tag = "throw" /\ cl.outcome.error.class = "DoorayAPIError"

====
